---------------------------- MODULE Spec2Model ----------------------------
(***************************************************************************)
(* Model of the ELF decoder of rust-elf: File::open_stream (src/lib.rs),   *)
(* the endianness-aware scalar readers and get_string (src/utils.rs) and   *)
(* the enumerations of src/types.rs.                                       *)
(*                                                                         *)
(* The input is an in-memory byte stream (a Cursor over a byte vector).    *)
(* Each initial state holds one image, built byte by byte from a record of *)
(* known field values (inp); the decoder then works on the bytes only.     *)
(* Scalars are kept below 2^31: every multi-byte field of an image has its *)
(* upper bytes zero where the value would not fit.                         *)
(***************************************************************************)
EXTENDS Integers, Sequences, FiniteSets

VARIABLES
    inp,        \* the field values the image was built from (never read by the decoder)
    stream,     \* io_file: the bytes of the stream
    pos,        \* io_file: the cursor position (0-based)
    pc,         \* position of open_stream: ident, header, phdrs, shdrs, data, names, done
    result,     \* none while running, then Ok, IoError, InvalidMagic, InvalidFormat or panic
    msg,        \* the diagnostic carried by the error or the panic
    header,     \* elf_f.header
    phoff,      \* local phoff
    shoff,      \* local shoff
    phnum,      \* local phnum
    shnum,      \* local shnum
    shstrndx,   \* local shstrndx
    phdrs,      \* elf_f.phdrs
    sections,   \* elf_f.sections
    name_idxs,  \* local name_idxs
    s_i,        \* local s_i
    loaded,     \* history: indexes (0-based) of the sections whose data has been assigned
    named,      \* history: indexes (0-based) of the sections whose name has been assigned
    dataReads,  \* history: indexes (0-based) of the sections read_exact was called for
    call,       \* the call of get_section or get_symbols on the File: in progress or returned
    prev,       \* history: the call that returned before the one in call
    gs          \* a call of utils::get_string on its own: arguments and result

vars == <<inp, stream, pos, pc, result, msg, header, phoff, shoff, phnum, shnum,
          shstrndx, phdrs, sections, name_idxs, s_i, loaded, named, dataReads,
          call, prev, gs>>

-----------------------------------------------------------------------------
(* Bounds of the model *)

MaxPhdrs == 2

MaxSections == 2

MaxSyms == 2

MaxStrLen == 3

-----------------------------------------------------------------------------
(* Constants of src/types.rs *)

EI_NIDENT == 16

ELFMAG0 == 127

ELFMAG1 == 69

ELFMAG2 == 76

ELFMAG3 == 70

EI_CLASS == 4

EI_DATA == 5

EI_OSABI == 7

EI_ABIVERSION == 8

Min(a, b) == IF a < b THEN a ELSE b

Max(a, b) == IF a < b THEN b ELSE a

SetMin(S) == CHOOSE x \in S : \A y \in S : x <= y

(* num_enum's TryFromPrimitive: the variant with that discriminant, or Err *)
ElfClassTryFrom(b) ==
    CASE b = 1 -> "Format32"
      [] b = 2 -> "Format64"
      [] OTHER -> "Err"

ElfEndiannessTryFrom(b) ==
    CASE b = 1 -> "Lsb"
      [] b = 2 -> "Msb"
      [] OTHER -> "Err"

ElfFileTypeTryFrom(n) ==
    CASE n = 0 -> "None"
      [] n = 1 -> "RelocatableObject"
      [] n = 2 -> "Executable"
      [] n = 3 -> "SharedLibrary"
      [] n = 4 -> "Core"
      [] OTHER -> "Err"

(* The discriminants of ElfCpuArchitecture; a variant is held as its discriminant *)
ElfCpuArchitectureCodes ==
    (0..5) \cup (7..10) \cup {15} \cup (17..22) \cup (36..63) \cup (66..94)
        \cup {183, 188, 189, 191}

ElfCpuArchitectureTryFrom(n) ==
    IF n \in ElfCpuArchitectureCodes THEN n ELSE -1

SectionTypeTryFrom(n) ==
    CASE n = 0 -> "Null"
      [] n = 1 -> "Progbits"
      [] n = 2 -> "Symtab"
      [] n = 3 -> "Strtab"
      [] n = 4 -> "Rela"
      [] n = 5 -> "Hash"
      [] n = 6 -> "Dynamic"
      [] n = 7 -> "Note"
      [] n = 8 -> "Nobits"
      [] n = 9 -> "Rel"
      [] n = 10 -> "Shlib"
      [] n = 11 -> "Dynsym"
      [] n = 12 -> "InitArray"
      [] n = 13 -> "FiniArray"
      [] n = 14 -> "PreinitArray"
      [] n = 15 -> "Group"
      [] n = 16 -> "SymtabShndx"
      [] n = 17 -> "Num"
      [] n = 1879048181 -> "GnuAttributes"
      [] n = 1879048182 -> "GnuHash"
      [] n = 1879048183 -> "GnuLiblist"
      [] n = 1879048189 -> "GnuVerdef"
      [] n = 1879048190 -> "GnuVerneed"
      [] n = 1879048191 -> "GnuVersym"
      [] n = 1879048193 -> "ArmExidc"
      [] n = 1879048195 -> "ArmAttributes"
      [] OTHER -> "Err"

-----------------------------------------------------------------------------
(* The scalar readers of src/utils.rs (byteorder's LittleEndian/BigEndian) *)

RECURSIVE LittleEndian(_)
LittleEndian(b) ==
    IF b = <<>> THEN 0 ELSE b[1] + 256 * LittleEndian(Tail(b))

RECURSIVE BigEndian(_)
BigEndian(b) ==
    IF b = <<>> THEN 0 ELSE BigEndian(SubSeq(b, 1, Len(b) - 1)) * 256 + b[Len(b)]

(* read_exact succeeds for n bytes at cursor position p; an empty buffer is
   filled wherever the cursor is *)
Has(p, n) == n = 0 \/ p + n <= Len(stream)

BytesAt(p, n) == SubSeq(stream, p + 1, p + n)

read_u16(e, p) ==
    IF e = "Lsb" THEN LittleEndian(BytesAt(p, 2)) ELSE BigEndian(BytesAt(p, 2))

read_u32(e, p) ==
    IF e = "Lsb" THEN LittleEndian(BytesAt(p, 4)) ELSE BigEndian(BytesAt(p, 4))

read_u64(e, p) ==
    IF e = "Lsb" THEN LittleEndian(BytesAt(p, 8)) ELSE BigEndian(BytesAt(p, 8))

(* The cursor after a failed read_exact: left where it was, or moved to the end *)
PosAfterFailedRead(p) == {p, Max(p, Len(stream))}


-----------------------------------------------------------------------------
(* Construction of the input images: the on-disk layout of an ELF file.   *)
(* These definitions write bytes; the decoder below never uses them.      *)

RECURSIVE EncLE(_, _)
EncLE(v, n) == IF n = 0 THEN <<>> ELSE <<v % 256>> \o EncLE(v \div 256, n - 1)

RECURSIVE EncBE(_, _)
EncBE(v, n) == IF n = 0 THEN <<>> ELSE EncBE(v \div 256, n - 1) \o <<v % 256>>

(* a scalar of n bytes in the byte order named by ident byte 5 (2 = big) *)
Enc(p, v, n) == IF p.data = 2 THEN EncBE(v, n) ELSE EncLE(v, n)

(* the width of an address-sized field for the class named by ident byte 4 *)
Wide(p) == IF p.cls = 2 THEN 8 ELSE 4

RECURSIVE Flatten(_)
Flatten(ss) == IF ss = <<>> THEN <<>> ELSE Head(ss) \o Flatten(Tail(ss))

ImgEhSize(p) == IF p.cls = 2 THEN 64 ELSE 52

ImgPhEntSize(p) == IF p.cls = 2 THEN 56 ELSE 32

ImgShEntSize(p) == IF p.cls = 2 THEN 64 ELSE 40

ImgPhOff(p) == ImgEhSize(p)

ImgShOff(p) == ImgPhOff(p) + Len(p.phdrs) * ImgPhEntSize(p)

(* where the section contents start; section offsets of inp are relative to it *)
ImgDataOff(p) == ImgShOff(p) + Len(p.shdrs) * ImgShEntSize(p)

ImgIdent(p) ==
    p.magic \o <<p.cls, p.data, 1, p.osabi, p.abiversion, 0, 0, 0, 0, 0, 0, 0>>

ImgHeader(p) ==
    Enc(p, p.etype, 2) \o Enc(p, p.machine, 2) \o Enc(p, p.version, 4)
        \o Enc(p, p.entry, Wide(p)) \o Enc(p, ImgPhOff(p), Wide(p))
        \o Enc(p, ImgShOff(p), Wide(p)) \o Enc(p, 0, 4)
        \o Enc(p, ImgEhSize(p), 2) \o Enc(p, ImgPhEntSize(p), 2)
        \o Enc(p, Len(p.phdrs), 2) \o Enc(p, ImgShEntSize(p), 2)
        \o Enc(p, Len(p.shdrs), 2) \o Enc(p, p.shstrndx, 2)

ImgPhdr(p, r) ==
    IF p.cls = 2
    THEN Enc(p, r.progtype, 4) \o Enc(p, r.flags, 4) \o Enc(p, r.offset, 8)
            \o Enc(p, r.vaddr, 8) \o Enc(p, r.paddr, 8) \o Enc(p, r.filesz, 8)
            \o Enc(p, r.memsz, 8) \o Enc(p, r.align, 8)
    ELSE Enc(p, r.progtype, 4) \o Enc(p, r.offset, 4) \o Enc(p, r.vaddr, 4)
            \o Enc(p, r.paddr, 4) \o Enc(p, r.filesz, 4) \o Enc(p, r.memsz, 4)
            \o Enc(p, r.flags, 4) \o Enc(p, r.align, 4)

ImgShdr(p, r) ==
    Enc(p, r.nameidx, 4) \o Enc(p, r.shtype, 4) \o Enc(p, r.flags, Wide(p))
        \o Enc(p, r.addr, Wide(p)) \o Enc(p, ImgDataOff(p) + r.rel, Wide(p))
        \o Enc(p, r.size, Wide(p)) \o Enc(p, r.link, 4) \o Enc(p, r.info, 4)
        \o Enc(p, r.addralign, Wide(p)) \o Enc(p, r.entsize, Wide(p))

(* the section contents: "\0.text\0.bss\0" followed by "ab" *)
ImgPayload == <<0, 46, 116, 101, 120, 116, 0, 46, 98, 115, 115, 0, 97, 98>>

(* a symbol record: 32-bit name, value, size, info, other, shndx; 64-bit
   name, info, other, shndx, value, size *)
ImgSym(p, r) ==
    IF p.cls = 2
    THEN Enc(p, r.name, 4) \o <<r.info, r.other>> \o Enc(p, r.shndx, 2)
            \o Enc(p, r.value, 8) \o Enc(p, r.size, 8)
    ELSE Enc(p, r.name, 4) \o Enc(p, r.value, 4) \o Enc(p, r.size, 4)
            \o <<r.info, r.other>> \o Enc(p, r.shndx, 2)

ImgSymSize(p) == IF p.cls = 2 THEN 24 ELSE 16

(* the string table of the symbols: "\0foo\0bar\0" *)
ImgSymStr == <<0, 102, 111, 111, 0, 98, 97, 114, 0>>

(* an image with a symbol table (symkind is its section type; 0: none) holds,
   after the section contents, the symbol string table, the symbol records and
   five more bytes *)
ImgSymPayload(p) ==
    IF p.symkind = 0 THEN <<>>
    ELSE ImgSymStr \o Flatten([i \in 1..Len(p.syms) |-> ImgSym(p, p.syms[i])])
            \o <<1, 2, 3, 4, 5>>

ImgFull(p) ==
    ImgIdent(p) \o ImgHeader(p)
        \o Flatten([i \in 1..Len(p.phdrs) |-> ImgPhdr(p, p.phdrs[i])])
        \o Flatten([i \in 1..Len(p.shdrs) |-> ImgShdr(p, p.shdrs[i])])
        \o ImgPayload \o ImgSymPayload(p)

(* the stream: the image, cut to p.cut bytes when p.cut >= 0 *)
Image(p) ==
    IF p.cut < 0 THEN ImgFull(p) ELSE SubSeq(ImgFull(p), 1, Min(p.cut, Len(ImgFull(p))))

GoodMagic == <<127, 69, 76, 70>>

Magics == {GoodMagic, <<0, 69, 76, 70>>, <<127, 70, 76, 70>>, <<127, 69, 0, 70>>,
           <<127, 69, 76, 71>>}

DefaultInp ==
    [cut |-> -1, magic |-> GoodMagic, cls |-> 1, data |-> 1, osabi |-> 0,
     abiversion |-> 0, etype |-> 3, machine |-> 40, version |-> 1,
     entry |-> 16909060, phdrs |-> <<>>, shdrs |-> <<>>, shstrndx |-> 0,
     symkind |-> 0, syms |-> <<>>]

(* images that differ in the ident: length, magic, class byte, byte-order byte *)
IdentInputs ==
    {[DefaultInp EXCEPT !.cut = c, !.magic = m, !.cls = k, !.data = d] :
        c \in {-1, 0, 4, 15}, m \in Magics, k \in 0..3, d \in 0..3}

(* images that differ in the fixed header fields *)
HeaderInputs ==
    {[DefaultInp EXCEPT !.cls = k, !.data = d, !.etype = t, !.machine = a,
                        !.version = v, !.entry = en, !.osabi = o[1],
                        !.abiversion = o[2]] :
        k \in 1..2, d \in 1..2, t \in {0, 3, 5}, a \in {62, 6}, v \in 0..2,
        en \in {16909060, 2018915346}, o \in {<<0, 0>>, <<3, 1>>}}

PhLoad ==
    [progtype |-> 1, offset |-> 258, vaddr |-> 134512640, paddr |-> 134512641,
     filesz |-> 564, memsz |-> 1110, flags |-> 5, align |-> 4096]

PhGnuStack ==
    [progtype |-> 1685382481, offset |-> 0, vaddr |-> 0, paddr |-> 0,
     filesz |-> 0, memsz |-> 0, flags |-> 6, align |-> 16]

RECURSIVE SeqsUpTo(_, _)
SeqsUpTo(S, n) ==
    IF n = 0 THEN {<<>>}
    ELSE SeqsUpTo(S, n - 1)
            \cup {Append(q, x) : q \in {r \in SeqsUpTo(S, n - 1) : Len(r) = n - 1}, x \in S}

(* images that differ in the program header table *)
PhdrInputs ==
    {[DefaultInp EXCEPT !.cls = k, !.data = d, !.phdrs = ph] :
        k \in 1..2, d \in 1..2, ph \in SeqsUpTo({PhLoad, PhGnuStack}, MaxPhdrs)}

Sec(nameidx, shtype, rel, size) ==
    [nameidx |-> nameidx, shtype |-> shtype, flags |-> 3, addr |-> 134520832,
     rel |-> rel, size |-> size, link |-> 1, info |-> 2, addralign |-> 4,
     entsize |-> 0]

(* the section headers an image may hold: a null section, the string table,
   a .bss without file bits placed past the end of the stream, two bytes of
   contents, contents longer than the stream, a section type the decoder does
   not know, and a name offset at the end of the string table *)
SecPalette ==
    {Sec(0, 0, 0, 0), Sec(1, 3, 0, 12), Sec(7, 8, 1000, 16), Sec(1, 1, 12, 2),
     Sec(7, 1, 10, 8), Sec(1, 18, 0, 0), Sec(12, 1, 0, 4)}

(* images that differ in the section header table *)
SectionInputs ==
    {[DefaultInp EXCEPT !.cls = k, !.data = d, !.phdrs = ph, !.shdrs = sh,
                        !.shstrndx = x] :
        k \in 1..2, d \in 1..2, ph \in {<<>>, <<PhLoad>>},
        sh \in SeqsUpTo(SecPalette, MaxSections), x \in 0..MaxSections}

(* a well-formed image cut short at various lengths *)
CutInputs ==
    {[DefaultInp EXCEPT !.cls = k, !.data = d, !.phdrs = <<PhLoad>>,
                        !.shdrs = <<Sec(1, 3, 0, 12), Sec(7, 8, 1000, 16)>>,
                        !.cut = c] :
        k \in 1..2, d \in 1..2, c \in {n \in 16..270 : n % 5 = 1}}

(* symbols: foo (info 0x12, other 7), bar (info 0xA1, other 2) and one whose
   name offset is the length of the symbol string table *)
SymFoo ==
    [name |-> 1, value |-> 4096, size |-> 8, info |-> 18, other |-> 7, shndx |-> 1]

SymBar ==
    [name |-> 5, value |-> 8196, size |-> 16, info |-> 161, other |-> 2,
     shndx |-> 65521]

SymNoName ==
    [name |-> 9, value |-> 0, size |-> 0, info |-> 0, other |-> 0, shndx |-> 0]

(* the section headers of an image with a symbol table: the section-name
   string table, the symbol string table, and the table itself, of section type
   t, declared extra bytes longer (shorter) than its n records, with link and
   entsize as given *)
SymShdrs(cls, t, n, extra, link, entsize) ==
    <<Sec(1, 3, 0, 12),
      Sec(7, 3, 14, 9),
      [Sec(1, t, 23, n * (IF cls = 2 THEN 24 ELSE 16) + extra) EXCEPT
            !.link = link, !.entsize = entsize]>>

SymInput(k, d, t, sy, extra, link, entsize) ==
    [DefaultInp EXCEPT !.cls = k, !.data = d, !.symkind = t, !.syms = sy,
                       !.phdrs = <<PhLoad>>,
                       !.shdrs = SymShdrs(k, t, Len(sy), extra, link, entsize)]

(* images with a symbol table: of type Symtab with every list of symbols and a
   right or wrong entsize, and of type Dynsym or Progbits; a Symtab declared 3
   bytes shorter or 5 bytes longer than its records; and a table with a link
   that is no section index *)
SymbolInputs ==
    {SymInput(k, d, 2, sy, 0, 1, es) :
        k \in 1..2, d \in 1..2,
        sy \in SeqsUpTo({SymFoo, SymBar, SymNoName}, MaxSyms), es \in {0, 24}}
    \cup {SymInput(k, d, t, sy, 0, 1, 0) :
        k \in 1..2, d \in 1..2, t \in {11, 1},
        sy \in SeqsUpTo({SymFoo, SymBar, SymNoName}, MaxSyms)}
    \cup {SymInput(k, k, 2, sy, x, 1, 16) :
        k \in 1..2, x \in {-3, 5},
        sy \in SeqsUpTo({SymFoo, SymBar, SymNoName}, MaxSyms) \ {<<>>}}
    \cup {SymInput(k, d, t, <<SymFoo>>, 0, 5, 16) :
        k \in 1..2, d \in 1..2, t \in {2, 1}}

Inputs ==
    IdentInputs \cup HeaderInputs \cup PhdrInputs \cup SectionInputs \cup CutInputs
        \cup SymbolInputs

-----------------------------------------------------------------------------
(* File::new() *)

NewHeader ==
    [class |-> "Format32", endianness |-> "Lsb", elftype |-> "None",
     cpu_architecture |-> 0, osabi |-> 0, abiversion |-> 0, entry |-> 0]

(* no call has been made on the File *)
NoCall ==
    [op |-> "none", st |-> "idle", sec |-> -1, name |-> <<>>, cur |-> 0,
     symbols |-> <<>>, ret |-> "none", found |-> -1]

(* get_string is not being called on its own *)
NoGs == [st |-> "idle", data |-> <<>>, start |-> 0, kind |-> "none", s |-> <<>>]

Init ==
    /\ inp \in Inputs
    /\ call = NoCall
    /\ prev = NoCall
    /\ gs = NoGs
    /\ stream = Image(inp)
    /\ pos = 0
    /\ pc = "ident"
    /\ result = "none"
    /\ msg = ""
    /\ header = NewHeader
    /\ phoff = 0
    /\ shoff = 0
    /\ phnum = 0
    /\ shnum = 0
    /\ shstrndx = 0
    /\ phdrs = <<>>
    /\ sections = <<>>
    /\ name_idxs = <<>>
    /\ s_i = 0
    /\ loaded = {}
    /\ named = {}
    /\ dataReads = {}

(* return Err(..) or panic: open_stream is over and no File is returned *)
Fail(r, m) ==
    /\ pc' = "done"
    /\ result' = r
    /\ msg' = m

-----------------------------------------------------------------------------
(* open_stream, the ident bytes *)

(* ident after io_file.read: the bytes read, the rest of the buffer still zero *)
IdentBuf(nread) == [i \in 1..EI_NIDENT |-> IF i <= nread THEN stream[i] ELSE 0]

BadMagic(ident) ==
    \/ ident[1] # ELFMAG0
    \/ ident[2] # ELFMAG1
    \/ ident[3] # ELFMAG2
    \/ ident[4] # ELFMAG3

(* IdentOutcome with the class byte checked before the magic *)
IdentOutcomeClassFirst(ident, nread) ==
    IF nread # EI_NIDENT THEN <<"InvalidFormat", "None">>
    ELSE IF ElfClassTryFrom(ident[EI_CLASS + 1]) = "Err"
        THEN <<"InvalidFormat", "Invalid EI_CLASS">>
    ELSE IF BadMagic(ident) THEN <<"InvalidMagic", "">>
    ELSE IF ElfEndiannessTryFrom(ident[EI_DATA + 1]) = "Err"
        THEN <<"panic", "unwrap ElfEndianness">>
    ELSE <<"none", "">>

(* IdentOutcome with the magic checked before the number of bytes read *)
IdentOutcomeMagicFirst(ident, nread) ==
    IF BadMagic(ident) THEN <<"InvalidMagic", "">>
    ELSE IF nread # EI_NIDENT THEN <<"InvalidFormat", "None">>
    ELSE IF ElfClassTryFrom(ident[EI_CLASS + 1]) = "Err"
        THEN <<"InvalidFormat", "Invalid EI_CLASS">>
    ELSE IF ElfEndiannessTryFrom(ident[EI_DATA + 1]) = "Err"
        THEN <<"panic", "unwrap ElfEndianness">>
    ELSE <<"none", "">>

(* IdentOutcome with the byte-order byte unwrapped before the class check *)
IdentOutcomeDataFirst(ident, nread) ==
    IF nread # EI_NIDENT THEN <<"InvalidFormat", "None">>
    ELSE IF BadMagic(ident) THEN <<"InvalidMagic", "">>
    ELSE IF ElfEndiannessTryFrom(ident[EI_DATA + 1]) = "Err"
        THEN <<"panic", "unwrap ElfEndianness">>
    ELSE IF ElfClassTryFrom(ident[EI_CLASS + 1]) = "Err"
        THEN <<"InvalidFormat", "Invalid EI_CLASS">>
    ELSE <<"none", "">>

(* what the ident stage does with the buffer, in the order of the code *)
IdentOutcome(ident, nread) ==
    IF nread # EI_NIDENT THEN <<"InvalidFormat", "None">>
    ELSE IF BadMagic(ident) THEN <<"InvalidMagic", "">>
    ELSE IF ElfClassTryFrom(ident[EI_CLASS + 1]) = "Err"
        THEN <<"InvalidFormat", "Invalid EI_CLASS">>
    ELSE IF ElfEndiannessTryFrom(ident[EI_DATA + 1]) = "Err"
        THEN <<"panic", "unwrap ElfEndianness">>
    ELSE <<"none", "">>

ReadIdent ==
    /\ pc = "ident"
    /\ LET nread == Min(EI_NIDENT, Len(stream))
           ident == IdentBuf(nread)
           out   == IdentOutcome(ident, nread)
       IN /\ pos' = nread
          /\ IF out[1] # "none"
             THEN /\ Fail(out[1], out[2])
                  /\ UNCHANGED header
             ELSE /\ header' = [header EXCEPT
                         !.class = ElfClassTryFrom(ident[EI_CLASS + 1]),
                         !.endianness = ElfEndiannessTryFrom(ident[EI_DATA + 1]),
                         !.osabi = ident[EI_OSABI + 1],
                         !.abiversion = ident[EI_ABIVERSION + 1]]
                  /\ pc' = "header"
                  /\ UNCHANGED <<result, msg>>
    /\ UNCHANGED <<call, prev, gs, inp, stream, phoff, shoff, phnum, shnum, shstrndx, phdrs,
                   sections, name_idxs, s_i, loaded, named, dataReads>>

-----------------------------------------------------------------------------
(* open_stream, the fixed header fields *)

(* the position of the first field of widths ws, laid out from p, that the
   stream is too short for: where the failing read_exact is called *)
RECURSIVE FirstShort(_, _)
FirstShort(p, ws) ==
    IF ws = <<>> \/ ~Has(p, Head(ws)) THEN p ELSE FirstShort(p + Head(ws), Tail(ws))

AddrWidth(class) == IF class = "Format32" THEN 4 ELSE 8

(* ReadAddr reading 4 bytes whatever the class *)
ReadAddrNarrow(class, e, p) == read_u32(e, p)

(* a class-dependent field: read_u32 as u64 for Format32, read_u64 for Format64 *)
ReadAddr(class, e, p) ==
    IF class = "Format32" THEN read_u32(e, p) ELSE read_u64(e, p)

(* BadVersion accepting every version below 1 *)
BadVersionAbove(elf_version) == elf_version > 1

BadVersion(elf_version) == elf_version # 1

HeaderStop(r, m, at, h) ==
    [res |-> r, msg |-> m, at |-> at, header |-> h, phoff |-> 0, shoff |-> 0,
     phnum |-> 0, shnum |-> 0, shstrndx |-> 0]

(* lines 110-142 from cursor position p0: the outcome, the header so far and
   the locals *)
HeaderDecode(hdr, p0) ==
    LET e  == hdr.endianness
        c  == hdr.class
        w  == AddrWidth(c)
        h1 == [hdr EXCEPT !.elftype = ElfFileTypeTryFrom(read_u16(e, p0))]
        h2 == [h1 EXCEPT !.cpu_architecture =
                              ElfCpuArchitectureTryFrom(read_u16(e, p0 + 2))]
        h3 == [h2 EXCEPT !.entry = ReadAddr(c, e, p0 + 8)]
        q  == p0 + 8 + 3 * w
        rest == <<w, w, w, 4, 2, 2, 2, 2, 2, 2>>
    IN  IF ~Has(p0, 2) THEN HeaderStop("IoError", "UnexpectedEof", p0, hdr)
        ELSE IF ElfFileTypeTryFrom(read_u16(e, p0)) = "Err"
            THEN HeaderStop("panic", "unwrap ElfFileType", p0 + 2, hdr)
        ELSE IF ~Has(p0 + 2, 2) THEN HeaderStop("IoError", "UnexpectedEof", p0 + 2, h1)
        ELSE IF ElfCpuArchitectureTryFrom(read_u16(e, p0 + 2)) = -1
            THEN HeaderStop("panic", "unwrap ElfCpuArchitecture", p0 + 4, h1)
        ELSE IF ~Has(p0 + 4, 4) THEN HeaderStop("IoError", "UnexpectedEof", p0 + 4, h2)
        ELSE IF BadVersion(read_u32(e, p0 + 4))
            THEN HeaderStop("panic", "Invalid version", p0 + 8, h2)
        ELSE IF ~Has(p0 + 8, 3 * w + 16)
            THEN HeaderStop("IoError", "UnexpectedEof", FirstShort(p0 + 8, rest),
                            IF Has(p0 + 8, w) THEN h3 ELSE h2)
        ELSE [res |-> "none", msg |-> "", at |-> q + 16, header |-> h3,
              phoff |-> ReadAddr(c, e, p0 + 8 + w),
              shoff |-> ReadAddr(c, e, p0 + 8 + 2 * w),
              phnum |-> read_u16(e, q + 8),
              shnum |-> read_u16(e, q + 12),
              shstrndx |-> read_u16(e, q + 14)]

(* the cursor once a stage has stopped at position at *)
StopPos(res, at) == IF res = "IoError" THEN PosAfterFailedRead(at) ELSE {at}

ReadHeader ==
    /\ pc = "header"
    /\ LET o == HeaderDecode(header, pos)
       IN /\ header' = o.header
          /\ IF o.res # "none"
             THEN /\ Fail(o.res, o.msg)
                  /\ pos' \in StopPos(o.res, o.at)
                  /\ UNCHANGED <<phoff, shoff, phnum, shnum, shstrndx>>
             ELSE /\ phoff' = o.phoff
                  /\ shoff' = o.shoff
                  /\ phnum' = o.phnum
                  /\ shnum' = o.shnum
                  /\ shstrndx' = o.shstrndx
                  /\ pos' = o.phoff
                  /\ pc' = "phdrs"
                  /\ UNCHANGED <<result, msg>>
    /\ UNCHANGED <<call, prev, gs, inp, stream, phdrs, sections, name_idxs, s_i, loaded, named,
                   dataReads>>

-----------------------------------------------------------------------------
(* open_stream, the program headers *)

PhdrWidths(class) ==
    IF class = "Format32" THEN <<4, 4, 4, 4, 4, 4, 4, 4>> ELSE <<4, 4, 8, 8, 8, 8, 8, 8>>

PhdrSize(class) == IF class = "Format32" THEN 32 ELSE 56

ProgramHeader32(e, p) ==
    [progtype |-> read_u32(e, p), offset |-> read_u32(e, p + 4),
     vaddr |-> read_u32(e, p + 8), paddr |-> read_u32(e, p + 12),
     filesz |-> read_u32(e, p + 16), memsz |-> read_u32(e, p + 20),
     flags |-> read_u32(e, p + 24), align |-> read_u32(e, p + 28)]

(* ProgramHeader64 decoding the record in the 32-bit layout: 4-byte fields,
   flags after memsz *)
ProgramHeader64As32(e, p) == ProgramHeader32(e, p)

ProgramHeader64(e, p) ==
    [progtype |-> read_u32(e, p), flags |-> read_u32(e, p + 4),
     offset |-> read_u64(e, p + 8), vaddr |-> read_u64(e, p + 16),
     paddr |-> read_u64(e, p + 24), filesz |-> read_u64(e, p + 32),
     memsz |-> read_u64(e, p + 40), align |-> read_u64(e, p + 48)]

(* one iteration of the loop over 0..phnum *)
ParsePhdr ==
    /\ pc = "phdrs"
    /\ Len(phdrs) < phnum
    /\ LET c == header.class
           e == header.endianness
       IN IF ~Has(pos, PhdrSize(c))
          THEN /\ Fail("IoError", "UnexpectedEof")
               /\ pos' \in PosAfterFailedRead(FirstShort(pos, PhdrWidths(c)))
               /\ UNCHANGED phdrs
          ELSE /\ phdrs' = Append(phdrs, IF c = "Format32"
                                         THEN ProgramHeader32(e, pos)
                                         ELSE ProgramHeader64(e, pos))
               /\ pos' = pos + PhdrSize(c)
               /\ UNCHANGED <<pc, result, msg>>
    /\ UNCHANGED <<call, prev, gs, inp, stream, header, phoff, shoff, phnum, shnum, shstrndx,
                   sections, name_idxs, s_i, loaded, named, dataReads>>

(* the loop is over: name_idxs = Vec::new(), seek to shoff *)
BeginShdrs ==
    /\ pc = "phdrs"
    /\ Len(phdrs) = phnum
    /\ name_idxs' = <<>>
    /\ pos' = shoff
    /\ pc' = "shdrs"
    /\ UNCHANGED <<call, prev, gs, inp, stream, result, msg, header, phoff, shoff, phnum, shnum,
                   shstrndx, phdrs, sections, s_i, loaded, named, dataReads>>

-----------------------------------------------------------------------------
(* open_stream, the section headers *)

ShdrRestWidths(class) ==
    IF class = "Format32" THEN <<4, 4, 4, 4, 4, 4, 4, 4>> ELSE <<8, 8, 8, 8, 4, 4, 8, 8>>

ShdrRestSize(class) == IF class = "Format32" THEN 32 ELSE 56

SectionHeader32(shtype, e, p) ==
    [name |-> <<>>, shtype |-> shtype, flags |-> read_u32(e, p),
     addr |-> read_u32(e, p + 4), offset |-> read_u32(e, p + 8),
     size |-> read_u32(e, p + 12), link |-> read_u32(e, p + 16),
     info |-> read_u32(e, p + 20), addralign |-> read_u32(e, p + 24),
     entsize |-> read_u32(e, p + 28)]

SectionHeader64(shtype, e, p) ==
    [name |-> <<>>, shtype |-> shtype, flags |-> read_u64(e, p),
     addr |-> read_u64(e, p + 8), offset |-> read_u64(e, p + 16),
     size |-> read_u64(e, p + 24), link |-> read_u32(e, p + 32),
     info |-> read_u32(e, p + 36), addralign |-> read_u64(e, p + 40),
     entsize |-> read_u64(e, p + 48)]

(* one iteration of the loop over 0..shnum *)
ParseShdr ==
    /\ pc = "shdrs"
    /\ Len(sections) < shnum
    /\ LET c == header.class
           e == header.endianness
           shtype == SectionTypeTryFrom(read_u32(e, pos + 4))
       IN IF ~Has(pos, 4)
          THEN /\ Fail("IoError", "UnexpectedEof")
               /\ pos' \in PosAfterFailedRead(pos)
               /\ UNCHANGED <<sections, name_idxs>>
          ELSE IF ~Has(pos + 4, 4)
          THEN /\ Fail("IoError", "UnexpectedEof")
               /\ pos' \in PosAfterFailedRead(pos + 4)
               /\ name_idxs' = Append(name_idxs, read_u32(e, pos))
               /\ UNCHANGED sections
          ELSE IF shtype = "Err"
          THEN /\ Fail("panic", "unwrap SectionType")
               /\ pos' = pos + 8
               /\ name_idxs' = Append(name_idxs, read_u32(e, pos))
               /\ UNCHANGED sections
          ELSE IF ~Has(pos + 8, ShdrRestSize(c))
          THEN /\ Fail("IoError", "UnexpectedEof")
               /\ pos' \in PosAfterFailedRead(FirstShort(pos + 8, ShdrRestWidths(c)))
               /\ name_idxs' = Append(name_idxs, read_u32(e, pos))
               /\ UNCHANGED sections
          ELSE /\ name_idxs' = Append(name_idxs, read_u32(e, pos))
               /\ sections' = Append(sections,
                     [shdr |-> IF c = "Format32"
                               THEN SectionHeader32(shtype, e, pos + 8)
                               ELSE SectionHeader64(shtype, e, pos + 8),
                      data |-> <<>>])
               /\ pos' = pos + 8 + ShdrRestSize(c)
               /\ UNCHANGED <<pc, result, msg>>
    /\ UNCHANGED <<call, prev, gs, inp, stream, header, phoff, shoff, phnum, shnum, shstrndx,
                   phdrs, s_i, loaded, named, dataReads>>

(* the loop is over: s_i = 0 *)
BeginData ==
    /\ pc = "shdrs"
    /\ Len(sections) = shnum
    /\ s_i' = 0
    /\ pc' = "data"
    /\ UNCHANGED <<call, prev, gs, inp, stream, pos, result, msg, header, phoff, shoff, phnum,
                   shnum, shstrndx, phdrs, sections, name_idxs, loaded, named,
                   dataReads>>

-----------------------------------------------------------------------------
(* open_stream, the section data *)

(* Zeros allocating one byte less *)
ZerosShort(size) == [i \in 1..(size - 1) |-> 0]

(* vec![0; size] *)
Zeros(size) == [i \in 1..size |-> 0]

(* NoRead skipping the stream for Progbits sections too *)
NoReadProgbits(shtype) == shtype = "Nobits" \/ shtype = "Progbits"

(* NoRead reading the data of every section *)
NoReadNever(shtype) == FALSE

(* the section types whose data is not read from the stream *)
NoRead(shtype) == shtype = "Nobits"

(* one iteration of the data loop: section s_i (sections[s_i + 1] here) *)
LoadData ==
    /\ pc = "data"
    /\ s_i # shnum
    /\ LET off  == sections[s_i + 1].shdr.offset
           size == sections[s_i + 1].shdr.size
       IN IF NoRead(sections[s_i + 1].shdr.shtype)
          THEN /\ pos' = off
               /\ sections' = [sections EXCEPT ![s_i + 1].data = Zeros(size)]
               /\ loaded' = loaded \cup {s_i}
               /\ s_i' = s_i + 1
               /\ UNCHANGED <<pc, result, msg, dataReads>>
          ELSE IF ~Has(off, size)
          THEN /\ Fail("IoError", "UnexpectedEof")
               /\ pos' \in PosAfterFailedRead(off)
               /\ dataReads' = dataReads \cup {s_i}
               /\ UNCHANGED <<sections, loaded, s_i>>
          ELSE /\ pos' = off + size
               /\ sections' = [sections EXCEPT ![s_i + 1].data = BytesAt(off, size)]
               /\ dataReads' = dataReads \cup {s_i}
               /\ loaded' = loaded \cup {s_i}
               /\ s_i' = s_i + 1
               /\ UNCHANGED <<pc, result, msg>>
    /\ UNCHANGED <<call, prev, gs, inp, stream, header, phoff, shoff, phnum, shnum, shstrndx,
                   phdrs, name_idxs, named>>

(* BeginNames leaving the data loop after its first iteration *)
BeginNamesEarly ==
    /\ pc = "data"
    /\ s_i >= 1
    /\ s_i' = 0
    /\ pc' = "names"
    /\ UNCHANGED <<call, prev, gs, inp, stream, pos, result, msg, header, phoff, shoff, phnum,
                   shnum, shstrndx, phdrs, sections, name_idxs, loaded, named,
                   dataReads>>

(* the data loop breaks: s_i = 0 *)
BeginNames ==
    /\ pc = "data"
    /\ s_i = shnum
    /\ s_i' = 0
    /\ pc' = "names"
    /\ UNCHANGED <<call, prev, gs, inp, stream, pos, result, msg, header, phoff, shoff, phnum,
                   shnum, shstrndx, phdrs, sections, name_idxs, loaded, named,
                   dataReads>>

-----------------------------------------------------------------------------
(* utils::get_string *)

(* GetStringEnd taking the last zero byte at or after start *)
GetStringEndLast(data, start) ==
    LET zs == {i \in start..(Len(data) - 1) : data[i + 1] = 0}
    IN  IF zs = {} THEN 0 ELSE CHOOSE x \in zs : \A y \in zs : y <= x

(* the first loop: the index of the first zero byte at or after start, and 0
   when there is none *)
GetStringEnd(data, start) ==
    LET zs == {i \in start..(Len(data) - 1) : data[i + 1] = 0}
    IN  IF zs = {} THEN 0 ELSE SetMin(zs)

(* end - start underflows when end < start: a panic in a debug build, and in a
   release build a capacity that with_capacity refuses with a panic *)
get_string(data, start) ==
    LET end == GetStringEnd(data, start)
    IN  IF end < start
        THEN [kind |-> "panic", s |-> <<>>]
        ELSE [kind |-> "Ok", s |-> SubSeq(data, start + 1, end)]

(* the buffers and start indexes get_string is called with on its own: every
   buffer of up to MaxStrLen bytes out of a zero, an ASCII and a non-ASCII
   byte, and "\0.text\0.bss\0" *)
StrTabExample == <<0, 46, 116, 101, 120, 116, 0, 46, 98, 115, 115, 0>>

StrCalls ==
    {<<d, st>> : d \in SeqsUpTo({0, 46, 200}, MaxStrLen), st \in 0..(MaxStrLen + 1)}
        \cup {<<StrTabExample, st>> : st \in 0..13}

(* a caller is about to call get_string(data, start) *)
InitStr ==
    /\ \E c \in StrCalls :
            gs = [st |-> "call", data |-> c[1], start |-> c[2], kind |-> "none",
                  s |-> <<>>]
    /\ inp = DefaultInp
    /\ stream = <<>>
    /\ pos = 0
    /\ pc = "idle"
    /\ result = "none"
    /\ msg = ""
    /\ header = NewHeader
    /\ phoff = 0
    /\ shoff = 0
    /\ phnum = 0
    /\ shnum = 0
    /\ shstrndx = 0
    /\ phdrs = <<>>
    /\ sections = <<>>
    /\ name_idxs = <<>>
    /\ s_i = 0
    /\ loaded = {}
    /\ named = {}
    /\ dataReads = {}
    /\ call = NoCall
    /\ prev = NoCall

(* the call of get_string(gs.data, gs.start) and its return *)
GetString ==
    /\ gs.st = "call"
    /\ LET r == get_string(gs.data, gs.start)
       IN gs' = [gs EXCEPT !.st = "ret", !.kind = r.kind, !.s = r.s]
    /\ UNCHANGED <<inp, stream, pos, pc, result, msg, header, phoff, shoff, phnum,
                   shnum, shstrndx, phdrs, sections, name_idxs, s_i, loaded, named,
                   dataReads, call, prev>>

NextStr == GetString

SpecStr == InitStr /\ [][NextStr]_vars

-----------------------------------------------------------------------------
(* open_stream, the section names *)

(* one iteration of the name loop: section s_i (sections[s_i + 1] here) *)
ResolveName ==
    /\ pc = "names"
    /\ s_i # shnum
    /\ IF shstrndx >= Len(sections)
       THEN /\ Fail("panic", "index out of bounds")
            /\ UNCHANGED <<sections, named, s_i>>
       ELSE LET r == get_string(sections[shstrndx + 1].data, name_idxs[s_i + 1])
            IN IF r.kind = "panic"
               THEN /\ Fail("panic", "get_string")
                    /\ UNCHANGED <<sections, named, s_i>>
               ELSE /\ sections' = [sections EXCEPT ![s_i + 1].shdr.name = r.s]
                    /\ named' = named \cup {s_i}
                    /\ s_i' = s_i + 1
                    /\ UNCHANGED <<pc, result, msg>>
    /\ UNCHANGED <<call, prev, gs, inp, stream, pos, header, phoff, shoff, phnum, shnum,
                   shstrndx, phdrs, name_idxs, loaded, dataReads>>

(* the name loop breaks: Ok(elf_f) *)
Finish ==
    /\ pc = "names"
    /\ s_i = shnum
    /\ pc' = "done"
    /\ result' = "Ok"
    /\ UNCHANGED <<call, prev, gs, inp, stream, pos, msg, header, phoff, shoff, phnum, shnum,
                   shstrndx, phdrs, sections, name_idxs, s_i, loaded, named,
                   dataReads>>

-----------------------------------------------------------------------------
(* File::get_symbols and File::parse_symbol *)

(* a scalar of n bytes at position p of the buffer d (a Cursor over
   section.data), in the byte order of the file *)
ReadIn(e, d, p, n) ==
    IF e = "Lsb" THEN LittleEndian(SubSeq(d, p + 1, p + n))
    ELSE BigEndian(SubSeq(d, p + 1, p + n))

(* the bytes one parse_symbol call reads *)
SymSize(class) == IF class = "Format32" THEN 16 ELSE 24

(* info[0] & 0xf *)
SymbolType(info) == info % 16

(* SymbolBind taking the low four bits as well *)
SymbolBindLow(info) == info % 16

(* info[0] >> 4 *)
SymbolBind(info) == info \div 16

(* other[0] & 0x3 *)
SymbolVis(other) == other % 4

SymbolFields32(e, d, p) ==
    [name |-> ReadIn(e, d, p, 4), value |-> ReadIn(e, d, p + 4, 4),
     size |-> ReadIn(e, d, p + 8, 4), info |-> d[p + 13], other |-> d[p + 14],
     shndx |-> ReadIn(e, d, p + 14, 2)]

SymbolFields64(e, d, p) ==
    [name |-> ReadIn(e, d, p, 4), info |-> d[p + 5], other |-> d[p + 6],
     shndx |-> ReadIn(e, d, p + 6, 2), value |-> ReadIn(e, d, p + 8, 8),
     size |-> ReadIn(e, d, p + 16, 8)]

(* the Symbol pushed for the fields f and the resolved name *)
MakeSymbol(f, name) ==
    [name |-> name, value |-> f.value, size |-> f.size, shndx |-> f.shndx,
     symtype |-> SymbolType(f.info), bind |-> SymbolBind(f.info),
     vis |-> SymbolVis(f.other)]

(* the loop condition dropping the rest of a buffer that holds no whole record *)
GetSymbolsMoreWhole(class, cur, len) == cur + SymSize(class) <= len

(* the loop condition of get_symbols *)
GetSymbolsMore(class, cur, len) == cur < len

(* the File is returned and no call on it is in progress *)
CanCall == pc = "done" /\ result = "Ok" /\ call.st # "run"

(* the call that has returned, kept when the next one is made *)
Returned == IF call.st = "ret" THEN call ELSE prev

(* get_symbols(&sections[i]) up to the loop: a section of another type returns
   the empty list at once; the link is indexed before the loop *)
CallGetSymbols(i) ==
    /\ CanCall
    /\ i \in 0..(Len(sections) - 1)
    /\ prev' = Returned
    /\ LET sh == sections[i + 1].shdr
           c  == [NoCall EXCEPT !.op = "get_symbols", !.sec = i]
       IN IF sh.shtype = "Symtab" \/ sh.shtype = "Dynsym"
          THEN IF sh.link >= Len(sections)
               THEN call' = [c EXCEPT !.st = "ret", !.ret = "panic"]
               ELSE call' = [c EXCEPT !.st = "run"]
          ELSE call' = [c EXCEPT !.st = "ret", !.ret = "Ok"]
    /\ UNCHANGED <<gs, inp, stream, pos, pc, result, msg, header, phoff, shoff,
                   phnum, shnum, shstrndx, phdrs, sections, name_idxs, s_i,
                   loaded, named, dataReads>>

(* one iteration of the loop of get_symbols: parse_symbol *)
ParseSymbol ==
    /\ call.st = "run"
    /\ LET sec  == sections[call.sec + 1]
           d    == sec.data
           link == sections[sec.shdr.link + 1].data
           c    == header.class
           e    == header.endianness
           f    == IF c = "Format32" THEN SymbolFields32(e, d, call.cur)
                   ELSE SymbolFields64(e, d, call.cur)
           n    == get_string(link, f.name)
       IN /\ GetSymbolsMore(c, call.cur, Len(d))
          /\ IF call.cur + SymSize(c) > Len(d)
             THEN call' = [call EXCEPT !.st = "ret", !.ret = "IoError",
                                       !.symbols = <<>>]
             ELSE IF n.kind = "panic"
             THEN call' = [call EXCEPT !.st = "ret", !.ret = "panic",
                                       !.symbols = <<>>]
             ELSE call' = [call EXCEPT !.cur = call.cur + SymSize(c),
                                       !.symbols = Append(call.symbols,
                                                          MakeSymbol(f, n.s))]
    /\ UNCHANGED <<prev, gs, inp, stream, pos, pc, result, msg, header, phoff,
                   shoff, phnum, shnum, shstrndx, phdrs, sections, name_idxs, s_i,
                   loaded, named, dataReads>>

(* ReturnSymbols leaving the section without the bytes the cursor went over *)
ReturnSymbolsConsuming ==
    /\ call.st = "run"
    /\ ~GetSymbolsMore(header.class, call.cur, Len(sections[call.sec + 1].data))
    /\ call' = [call EXCEPT !.st = "ret", !.ret = "Ok"]
    /\ sections' = [sections EXCEPT ![call.sec + 1].data = <<>>]
    /\ UNCHANGED <<prev, gs, inp, stream, pos, pc, result, msg, header, phoff,
                   shoff, phnum, shnum, shstrndx, phdrs, name_idxs, s_i,
                   loaded, named, dataReads>>

(* the loop of get_symbols is over: Ok(symbols) *)
ReturnSymbols ==
    /\ call.st = "run"
    /\ ~GetSymbolsMore(header.class, call.cur, Len(sections[call.sec + 1].data))
    /\ call' = [call EXCEPT !.st = "ret", !.ret = "Ok"]
    /\ UNCHANGED <<prev, gs, inp, stream, pos, pc, result, msg, header, phoff,
                   shoff, phnum, shnum, shstrndx, phdrs, sections, name_idxs, s_i,
                   loaded, named, dataReads>>

-----------------------------------------------------------------------------
(* File::get_section *)

(* the names get_section is called with: ".text", ".bss", ".tex", ".BSS" *)
QueryNames ==
    {<<46, 116, 101, 120, 116>>, <<46, 98, 115, 115>>, <<46, 116, 101, 120>>,
     <<46, 66, 83, 83>>}

(* FindSection returning the last section of that name *)
FindSectionLast(secs, name) ==
    LET hits == {i \in 1..Len(secs) : secs[i].shdr.name = name}
    IN  IF hits = {} THEN -1 ELSE (CHOOSE x \in hits : \A y \in hits : y <= x) - 1

(* iter().find(..): the index (0-based) of the first section whose name equals
   name, -1 for None *)
FindSection(secs, name) ==
    LET hits == {i \in 1..Len(secs) : secs[i].shdr.name = name}
    IN  IF hits = {} THEN -1 ELSE SetMin(hits) - 1

GetSection(name) ==
    /\ CanCall
    /\ prev' = Returned
    /\ LET i == FindSection(sections, name)
       IN call' = [NoCall EXCEPT !.op = "get_section", !.name = name, !.st = "ret",
                                 !.found = i,
                                 !.ret = IF i = -1 THEN "None" ELSE "Some"]
    /\ UNCHANGED <<gs, inp, stream, pos, pc, result, msg, header, phoff, shoff,
                   phnum, shnum, shstrndx, phdrs, sections, name_idxs, s_i,
                   loaded, named, dataReads>>

Next ==
    \/ ReadIdent
    \/ ReadHeader
    \/ ParsePhdr
    \/ BeginShdrs
    \/ ParseShdr
    \/ BeginData
    \/ LoadData
    \/ BeginNames
    \/ ResolveName
    \/ Finish
    \/ \E i \in 0..(MaxSections + 1) : CallGetSymbols(i)
    \/ ParseSymbol
    \/ ReturnSymbols
    \/ \E n \in QueryNames : GetSection(n)

Spec == Init /\ [][Next]_vars

(* open_stream is called with an image that has a symbol table *)
InitSym == Init /\ inp \in SymbolInputs

(* open_stream, then get_symbols calls on the File *)
NextSym ==
    \/ ReadIdent
    \/ ReadHeader
    \/ ParsePhdr
    \/ BeginShdrs
    \/ ParseShdr
    \/ BeginData
    \/ LoadData
    \/ BeginNames
    \/ ResolveName
    \/ Finish
    \/ \E i \in 0..(MaxSections + 1) : CallGetSymbols(i)
    \/ ParseSymbol
    \/ ReturnSymbols

(* a call of get_symbols runs on: its loop takes its next iteration, or ends *)
SpecFair ==
    InitSym /\ [][NextSym]_vars /\ WF_vars(ParseSymbol) /\ WF_vars(ReturnSymbols)

-----------------------------------------------------------------------------
(* Properties *)

Done == pc = "done"

(* the stream supplies all 16 ident bytes *)
FullIdent == Len(stream) >= 16

(* the first four bytes of the stream are 0x7F 'E' 'L' 'F' *)
MagicBytesOk == FullIdent /\ SubSeq(stream, 1, 4) = <<127, 69, 76, 70>>

(* magic, class byte and byte-order byte of the stream are all valid *)
ValidIdent == MagicBytesOk /\ stream[5] \in {1, 2} /\ stream[6] \in {1, 2}

(* C1: once open_stream has returned on a stream of at least 16 bytes whose
   first four bytes are not the magic, the result is InvalidMagic, whatever the
   class byte, the byte-order byte and the rest are. *)
C1_BadMagicIsInvalidMagic ==
    (Done /\ FullIdent /\ ~MagicBytesOk) => result = "InvalidMagic"

(* a bad magic together with a bad class byte and a bad byte-order byte *)
C1_Witness ==
    /\ Done /\ FullIdent /\ ~MagicBytesOk
    /\ stream[5] \notin {1, 2} /\ stream[6] \notin {1, 2}
    /\ result = "InvalidMagic"

(* C2: once open_stream has returned on a stream shorter than 16 bytes, the
   result is InvalidFormat, whatever the bytes are, the cursor is at the end of
   the stream and nothing has been decoded. *)
C2_ShortIdentIsInvalidFormat ==
    (Done /\ ~FullIdent) =>
        /\ result = "InvalidFormat"
        /\ pos = Len(stream)
        /\ header = NewHeader
        /\ phdrs = <<>> /\ sections = <<>>

(* a short stream that starts with a wrong magic byte *)
C2_Witness ==
    /\ Done /\ Len(stream) \in 1..15 /\ stream[1] # 127
    /\ result = "InvalidFormat"

(* C3: with the right magic and a class byte that is neither 1 nor 2, the
   result is InvalidFormat (Invalid EI_CLASS), the cursor is at 16 and no field
   of the header has been assigned: the byte-order byte was not interpreted. *)
C3_BadClassIsInvalidFormat ==
    (Done /\ MagicBytesOk /\ stream[5] \notin {1, 2}) =>
        /\ result = "InvalidFormat"
        /\ msg = "Invalid EI_CLASS"
        /\ pos = 16
        /\ header = NewHeader

(* a bad class byte together with a byte-order byte that is not valid either *)
C3_Witness ==
    /\ Done /\ MagicBytesOk /\ stream[5] = 3 /\ stream[6] = 0
    /\ result = "InvalidFormat"

(* C4: on an image with valid magic, class and byte order and version 1,
   open_stream never panics on an unrecognized file-type, architecture or
   section-type number. *)
C4_NoPanicOnUnknownCode ==
    (ValidIdent /\ inp.version = 1) =>
        ~(/\ result = "panic"
          /\ msg \in {"unwrap ElfFileType", "unwrap ElfCpuArchitecture",
                      "unwrap SectionType"})

(* the file type and architecture numbers of the image are recognized ones *)
KnownTypeAndMachine ==
    /\ inp.etype \in 0..4
    /\ inp.machine \in ElfCpuArchitectureCodes

(* C5: with a valid ident and a version word other than 1, open_stream ends
   fatally: it panics, no File is returned and no program header, section
   header or section data has been decoded; when file type and architecture
   are recognized the panic is the one of the version check, raised right after
   the version word. *)
C5_BadVersionIsFatal ==
    (Done /\ ValidIdent /\ Len(stream) >= 24 /\ inp.version # 1) =>
        /\ result = "panic"
        /\ phdrs = <<>> /\ sections = <<>> /\ loaded = {} /\ named = {}
        /\ KnownTypeAndMachine => (msg = "Invalid version" /\ pos = 24)

(* a 64-bit big-endian image of version 2 *)
C5_Witness ==
    /\ Done /\ ValidIdent /\ inp.version = 2 /\ inp.cls = 2 /\ inp.data = 2
    /\ msg = "Invalid version"

(* section i (0-based) has a name that get_string can resolve: the string
   table holds a zero byte at or after the name offset *)
NameResolvable(i) ==
    /\ shstrndx < Len(sections)
    /\ \E k \in name_idxs[i + 1]..(Len(sections[shstrndx + 1].data) - 1) :
            sections[shstrndx + 1].data[k + 1] = 0

(* C6: when open_stream is over, either a stage failed and the caller has a
   typed ParseError, or the File is returned and nothing in it stands for data
   that could not be decoded. *)
C6_FailureIsTypedError ==
    Done =>
        \/ result \in {"IoError", "InvalidMagic", "InvalidFormat", "NotImplemented"}
        \/ /\ result = "Ok"
           /\ \A i \in 0..(shnum - 1) : NameResolvable(i)

(* the header fields the image was built from, as the File is to hold them *)
ExpectedHeader ==
    [class |-> IF inp.cls = 1 THEN "Format32" ELSE "Format64",
     endianness |-> IF inp.data = 1 THEN "Lsb" ELSE "Msb",
     elftype |-> <<"None", "RelocatableObject", "Executable", "SharedLibrary",
                   "Core">>[inp.etype + 1],
     cpu_architecture |-> inp.machine,
     osabi |-> inp.osabi,
     abiversion |-> inp.abiversion,
     entry |-> inp.entry]

(* the image is whole, its ident is valid, its file type and architecture are
   recognized and its version is 1 *)
GoodHeaderInput ==
    /\ inp.cut < 0 /\ inp.magic = <<127, 69, 76, 70>>
    /\ inp.cls \in {1, 2} /\ inp.data \in {1, 2}
    /\ KnownTypeAndMachine /\ inp.version = 1

(* C7: for every class and byte order, once the header stage is passed the
   header holds exactly the values the image was built from, and an image with
   a good header and no tables decodes to a File. *)
C7_HeaderRoundTrip ==
    /\ (pc \notin {"ident", "header"} /\ result \in {"none", "Ok"}) =>
            header = ExpectedHeader
    /\ (GoodHeaderInput /\ Done /\ inp.phdrs = <<>> /\ inp.shdrs = <<>>) =>
            result = "Ok"

(* a 64-bit big-endian image decoded to a File with the entry point and OS-ABI
   it was built from *)
C7_Witness ==
    /\ result = "Ok" /\ inp.cls = 2 /\ inp.data = 2
    /\ inp.entry = 2018915346 /\ header.entry = 2018915346
    /\ inp.osabi = 3 /\ header.osabi = 3 /\ header.abiversion = 1
    /\ header.elftype = "SharedLibrary" /\ header.cpu_architecture = 62

(* C8: every decoded program header equals the record placed in the image
   (64-bit: type, flags, then 8-byte offset .. align; 32-bit: type, offset ..
   memsz, flags, align, 4 bytes each), and once the program header stage is
   passed all of them are decoded, in order. *)
C8_PhdrFieldOrder ==
    /\ Len(phdrs) <= Len(inp.phdrs)
    /\ \A i \in 1..Len(phdrs) : phdrs[i] = inp.phdrs[i]
    /\ (pc \in {"shdrs", "data", "names"} \/ result = "Ok") => phdrs = inp.phdrs

(* a 64-bit image whose first record has flags 5 and offset 258 *)
C8_Witness ==
    /\ inp.cls = 2 /\ Len(phdrs) = 2 /\ pc = "shdrs"
    /\ phdrs[1].flags = 5 /\ phdrs[1].offset = 258
    /\ phdrs[2].progtype = 1685382481

(* C9: the iteration of the data loop on a Nobits section never fails, calls
   no read and leaves a buffer of exactly size zero bytes, and so is every
   loaded Nobits buffer, wherever the section's offset lies. *)
C9_NobitsZeroFilled ==
    /\ [](\A i \in loaded :
            sections[i + 1].shdr.shtype = "Nobits" =>
                /\ i \notin dataReads
                /\ Len(sections[i + 1].data) = inp.shdrs[i + 1].size
                /\ \A k \in 1..Len(sections[i + 1].data) : sections[i + 1].data[k] = 0)
    /\ [][(pc = "data" /\ s_i # shnum /\ sections[s_i + 1].shdr.shtype = "Nobits") =>
            /\ result' = "none" /\ pc' = "data"
            /\ s_i' = s_i + 1
            /\ loaded' = loaded \cup {s_i}
            /\ dataReads' = dataReads
            /\ Len(sections'[s_i + 1].data) = sections[s_i + 1].shdr.size]_vars

(* a loaded Nobits section of 16 bytes whose offset is past the end of the
   stream *)
C9_Witness ==
    \E i \in loaded :
        /\ sections[i + 1].shdr.shtype = "Nobits"
        /\ sections[i + 1].shdr.offset >= Len(stream)
        /\ sections[i + 1].data = <<0, 0, 0, 0, 0, 0, 0, 0, 0, 0, 0, 0, 0, 0, 0, 0>>

(* C10: when the name loop is entered, and whenever a name has been resolved,
   the data of all shnum sections has been loaded. *)
C10_DataBeforeNames ==
    (pc = "names" \/ named # {}) =>
        /\ Len(sections) = shnum
        /\ loaded = 0..(shnum - 1)

(* the name of section 0 has been resolved from the string table at index 1,
   which the data loop reaches after section 0 *)
C10_Witness ==
    /\ pc = "names" /\ shnum = 2 /\ shstrndx = 1 /\ named = {0}
    /\ sections[1].shdr.name = <<46, 116, 101, 120, 116>>

(* the buffer of the get_string call holds a zero byte at or after start *)
GsTerminated ==
    \E k \in gs.start..(Len(gs.data) - 1) : gs.data[k + 1] = 0

(* C11: when the buffer has a zero byte at or after start, get_string returns
   Ok with the bytes from start up to, and without, the first such zero byte,
   in order and one character each; "\0.text\0.bss\0" gives ".text" at 1 and
   ".bss" at 7. *)
C11_GetStringUpToFirstZero ==
    (gs.st = "ret" /\ GsTerminated) =>
        /\ gs.kind = "Ok"
        /\ gs.start + Len(gs.s) < Len(gs.data)
        /\ gs.data[gs.start + Len(gs.s) + 1] = 0
        /\ \A k \in 1..Len(gs.s) : gs.s[k] = gs.data[gs.start + k] /\ gs.s[k] # 0
        /\ (gs.data = StrTabExample /\ gs.start = 1) => gs.s = <<46, 116, 101, 120, 116>>
        /\ (gs.data = StrTabExample /\ gs.start = 7) => gs.s = <<46, 98, 115, 115>>

(* offset 7 of "\0.text\0.bss\0" has been resolved to ".bss" *)
C11_Witness ==
    /\ gs.st = "ret" /\ gs.data = StrTabExample /\ gs.start = 7
    /\ gs.kind = "Ok" /\ gs.s = <<46, 98, 115, 115>>

(* C12: when the buffer has no zero byte at or after start, get_string fails
   with a format error: no string and no panic. *)
C12_NoTerminatorIsFormatError ==
    (gs.st = "ret" /\ ~GsTerminated) => gs.kind = "InvalidFormat"


(* get_symbols is at work on, or has returned from, the symbol table of an
   image built with one (section 2, its names in section 1) *)
OnSymbolTable ==
    /\ inp.symkind \in {2, 11}
    /\ call.op = "get_symbols"
    /\ call.sec = 2
    /\ inp.shdrs[3].link = 1

(* the name at offset off of "\0foo\0bar\0" *)
ExpectedSymName(off) ==
    IF off = 1 THEN <<102, 111, 111>> ELSE IF off = 5 THEN <<98, 97, 114>> ELSE <<>>

(* C13: every symbol get_symbols has decoded is the record of the same rank of
   the symbol table: type the low 4 bits of info, binding the high 4 bits,
   visibility the low 2 bits of other, name the string at the name offset in
   the data of the section at index link, value, size and shndx as stored in
   the layout of the class; info 0x12 gives type 2 and binding 1 *)
C13_SymbolDecoding ==
    OnSymbolTable =>
        /\ Len(call.symbols) <= Len(inp.syms)
        /\ \A k \in 1..Len(call.symbols) :
              LET r == inp.syms[k]
                  y == call.symbols[k]
              IN /\ y.symtype = r.info % 16
                 /\ y.bind = r.info \div 16
                 /\ y.vis = r.other % 4
                 /\ y.name = ExpectedSymName(r.name)
                 /\ y.value = r.value
                 /\ y.size = r.size
                 /\ y.shndx = r.shndx
                 /\ r.info = 18 => (y.symtype = 2 /\ y.bind = 1)

(* get_symbols returned foo then bar from a 64-bit big-endian symbol table *)
C13_Witness ==
    /\ OnSymbolTable
    /\ inp.cls = 2
    /\ inp.data = 2
    /\ call.st = "ret"
    /\ call.ret = "Ok"
    /\ Len(call.symbols) = 2
    /\ call.symbols[1].name = <<102, 111, 111>>
    /\ call.symbols[1].symtype = 2
    /\ call.symbols[1].bind = 1
    /\ call.symbols[1].vis = 3
    /\ call.symbols[2].name = <<98, 97, 114>>
    /\ call.symbols[2].bind = 10

(* a whole, well-formed little-endian 32-bit image without program headers
   whose section headers are sh *)
MinimalImage(sh) ==
    /\ inp.cut = -1
    /\ ValidIdent
    /\ inp.cls = 1
    /\ inp.data = 1
    /\ KnownTypeAndMachine
    /\ inp.version = 1
    /\ inp.phdrs = <<>>
    /\ inp.symkind = 0
    /\ inp.shdrs = sh

(* the section header of .bss: name offset 7, Nobits, size 16 *)
BssHeader == Sec(7, 8, 1000, 16)

(* a buffer of 16 bytes, all zero *)
SixteenZeros(d) == Len(d) = 16 /\ \A j \in 1..16 : d[j] = 0

(* the only section of the File is a Nobits section of 16 zero bytes *)
OnlyBss ==
    /\ result = "Ok"
    /\ Len(sections) = 1
    /\ sections[1].shdr.shtype = "Nobits"
    /\ SixteenZeros(sections[1].data)

(* C14 as stated: the image whose only section is .bss decodes to a File whose
   single section has 16 zero bytes and the name ".bss" *)
C14_OneSectionNamedBss ==
    (MinimalImage(<<BssHeader>>) /\ pc = "done") =>
        /\ OnlyBss
        /\ sections[1].shdr.name = <<46, 98, 115, 115>>

(* C14 amended: the .bss section decodes to 16 zero bytes; its name resolves to
   ".bss" when the section-name string table "\0.text\0.bss\0" is a section of
   the file as well, and to the empty string when .bss is the only section and
   is its own section-name table (shstrndx 0) *)
C14_BssNeedsStringTable ==
    /\ (MinimalImage(<<Sec(1, 3, 0, 12), BssHeader>>) /\ inp.shstrndx = 0
            /\ pc = "done") =>
            /\ result = "Ok"
            /\ Len(sections) = 2
            /\ sections[2].shdr.shtype = "Nobits"
            /\ SixteenZeros(sections[2].data)
            /\ sections[2].shdr.name = <<46, 98, 115, 115>>
    /\ (MinimalImage(<<BssHeader>>) /\ inp.shstrndx = 0 /\ pc = "done") =>
            /\ OnlyBss
            /\ sections[1].shdr.name = <<>>

(* the one-section image has been decoded: 16 zero bytes under an empty name *)
C14_Witness ==
    /\ MinimalImage(<<BssHeader>>)
    /\ inp.shstrndx = 0
    /\ pc = "done"
    /\ OnlyBss
    /\ sections[1].shdr.name = <<>>

(* the File open_stream returned *)
TheFile == <<header, phdrs, sections>>

(* the last two calls that returned are the same call *)
SameCall ==
    /\ call.st = "ret"
    /\ prev.st = "ret"
    /\ call.op = prev.op
    /\ call.sec = prev.sec
    /\ call.name = prev.name

(* C15: once open_stream has returned a File, no step of a get_section or
   get_symbols call, successful or failing, changes header, phdrs or sections;
   a call repeated returns what it returned before; and no symbol is decoded
   before get_symbols is called on the returned File: until then there is no
   call, and the data of a symbol table is the bytes of the stream *)
C15_FileReadOnly ==
    /\ [][(pc = "done" /\ result = "Ok") =>
            (TheFile' = TheFile /\ pc' = pc /\ result' = result)]_vars
    /\ [](SameCall =>
            (call.ret = prev.ret /\ call.symbols = prev.symbols
                /\ call.found = prev.found))
    /\ [](~(pc = "done" /\ result = "Ok") => (call = NoCall /\ prev = NoCall))
    /\ []((pc = "done" /\ result = "Ok") =>
            \A i \in 1..Len(sections) :
                sections[i].shdr.shtype \in {"Symtab", "Dynsym"} =>
                    sections[i].data =
                        BytesAt(sections[i].shdr.offset, sections[i].shdr.size))

(* get_symbols has returned the same two symbols twice in a row *)
C15_Witness ==
    /\ SameCall
    /\ call.op = "get_symbols"
    /\ call.ret = "Ok"
    /\ Len(call.symbols) = 2
    /\ prev.symbols = call.symbols
    /\ sections[call.sec + 1].data # <<>>

(* get_section(call.name) has returned *)
SectionLookedUp == call.op = "get_section" /\ call.st = "ret"

(* C16: get_section(name) returns the first section in table order whose name
   is exactly name (the returned section's shdr.name is name and no section
   before it has that name), and None when no section has that name *)
C16_GetSectionFirstExact ==
    SectionLookedUp =>
        IF \E i \in 1..Len(sections) : sections[i].shdr.name = call.name
        THEN /\ call.ret = "Some"
             /\ call.found \in 0..(Len(sections) - 1)
             /\ sections[call.found + 1].shdr.name = call.name
             /\ \A j \in 1..call.found : sections[j].shdr.name # call.name
        ELSE /\ call.ret = "None"
             /\ call.found = -1

(* get_section(".text") returned the first of two sections named .text *)
C16_Witness ==
    /\ SectionLookedUp
    /\ call.name = <<46, 116, 101, 120, 116>>
    /\ Len(sections) = 2
    /\ sections[1].shdr.name = call.name
    /\ sections[2].shdr.name = call.name
    /\ call.ret = "Some"
    /\ call.found = 0

(* the data loop is about to load a section whose type is not Nobits *)
AboutToRead ==
    /\ pc = "data"
    /\ s_i # shnum
    /\ sections[s_i + 1].shdr.shtype # "Nobits"

(* the bytes the stream holds from offset off on *)
Available(off) == Max(0, Len(stream) - off)

(* C17: the loader, at a section whose type is not Nobits, fails with IoError
   when the stream holds fewer than size bytes from the section's offset, and
   otherwise reads from the stream exactly the size bytes at that offset into
   the section's buffer; a File that is returned has exactly shnum sections, in
   the order of the section header table, each with a buffer as long as the
   size its header declares *)
C17_SectionDataLoading ==
    /\ [][AboutToRead =>
            LET off  == sections[s_i + 1].shdr.offset
                size == sections[s_i + 1].shdr.size
            IN IF Available(off) < size
               THEN pc' = "done" /\ result' = "IoError"
               ELSE /\ result' = "none"
                    /\ s_i \in dataReads'
                    /\ Len(sections'[s_i + 1].data) = size
                    /\ \A j \in 1..size :
                          sections'[s_i + 1].data[j] = stream[off + j]]_vars
    /\ []((pc = "done" /\ result = "Ok") =>
            /\ Len(sections) = shnum
            /\ shnum = Len(inp.shdrs)
            /\ \A i \in 1..Len(sections) :
                  /\ Len(sections[i].data) = sections[i].shdr.size
                  /\ sections[i].shdr.size = inp.shdrs[i].size
                  /\ sections[i].shdr.offset = ImgDataOff(inp) + inp.shdrs[i].rel)

(* a File whose second section, of type Progbits, holds the two bytes of the
   stream at its offset *)
C17_Witness ==
    /\ pc = "done"
    /\ result = "Ok"
    /\ Len(sections) = 2
    /\ sections[2].shdr.shtype = "Progbits"
    /\ sections[2].shdr.size = 2
    /\ sections[2].data = <<97, 98>>
    /\ 1 \in dataReads

(* get_symbols(&sections[call.sec]) has returned *)
SymbolsReturned == call.op = "get_symbols" /\ call.st = "ret"

(* the section get_symbols was called with *)
CallSection == sections[call.sec + 1]

(* the section is a symbol table and its link is the index of a section *)
IsLinkedSymbolTable ==
    /\ CallSection.shdr.shtype \in {"Symtab", "Dynsym"}
    /\ CallSection.shdr.link < Len(sections)

(* the name offset of every whole record of the section is the start of a
   string of the linked section *)
NamesResolve ==
    LET d    == CallSection.data
        link == sections[CallSection.shdr.link + 1].data
        rec  == SymSize(header.class)
    IN \A r \in 0..((Len(d) \div rec) - 1) :
          get_string(link, ReadIn(header.endianness, d, r * rec, 4)).kind = "Ok"

(* C18: no get_symbols call runs for ever: one that has started returns;
   called with a Symtab or Dynsym section of k whole records (16 bytes each in a 32-bit file, 24 in a
   64-bit one) whose names all resolve, it returns exactly k symbols and has
   stopped at the end of the data, whatever the entsize of the header; when the
   length of the data is not a multiple of the record size it does not return
   a list, and returns IoError when the names of the whole records resolve;
   called with a section of another type it returns the empty list without
   having read a byte of the section or indexed its link *)
C18_GetSymbolsTerminatesAtBoundary ==
    /\ []<>(call.st # "run")
    /\ []((SymbolsReturned /\ IsLinkedSymbolTable) =>
            LET len == Len(CallSection.data)
                rec == SymSize(header.class)
            IN IF len % rec = 0
               THEN NamesResolve =>
                        /\ call.ret = "Ok"
                        /\ Len(call.symbols) * rec = len
                        /\ call.cur = len
               ELSE /\ call.ret # "Ok"
                    /\ call.symbols = <<>>
                    /\ NamesResolve => call.ret = "IoError")
    /\ []((SymbolsReturned
            /\ CallSection.shdr.shtype \notin {"Symtab", "Dynsym"}) =>
                /\ call.ret = "Ok"
                /\ call.symbols = <<>>
                /\ call.cur = 0)
    /\ [][call.st = "run" =>
            \/ call'.st = "ret"
            \/ call'.cur = call.cur + SymSize(header.class)
                /\ call'.cur <= Len(CallSection.data)]_vars

(* get_symbols returned the two symbols of a 48-byte symbol table of a 64-bit
   file whose header gives entsize 0 *)
C18_Witness ==
    /\ SymbolsReturned
    /\ IsLinkedSymbolTable
    /\ header.class = "Format64"
    /\ CallSection.shdr.entsize = 0
    /\ Len(CallSection.data) = 48
    /\ call.ret = "Ok"
    /\ Len(call.symbols) = 2
    /\ call.cur = 48

=========================================================================
